---- MODULE Spec2Model ----
(***************************************************************************)
(* Elastic host discovery and worker orchestration of horovod.ray.elastic: *)
(* RayHostDiscovery (slot map, liveness sweep, blacklist, registrations),  *)
(* ElasticRayExecutor.start / run and the worker_loop closure.  The        *)
(* ElasticDriver lives outside src/ and is modelled from the               *)
(* specification's description of it.                                      *)
(***************************************************************************)
EXTENDS Integers, Sequences, FiniteSets, TLC

\* ---------------------------------------------------------------- bounds
NumHosts == 2       \* hosts the cluster can report
MaxNp == 2          \* ranks the Driver hands out are 0 .. MaxNp-1
MaxInst == 2        \* worker instances (worker_loop invocations) per run
MaxFaults == 1      \* node changes and remote task failures per run
Scale == 2          \* a resource quantity q (a float) is held as q * Scale
MaxCPU == 3         \* largest CPU quantity of a node, in whole CPUs
MaxGPU == 1         \* largest GPU quantity of a node, in whole GPUs
MaxPerSlot == 2     \* largest cpus_per_slot and gpus_per_slot

Hosts == 1..NumHosts
Ranks == 0..(MaxNp - 1)
Insts == 1..MaxInst

\* Python's None, for an error message and for worker_loop's result
None == "None"
NoResult == <<>>

\* The fatal condition the Driver reports (reset limit / elastic timeout)
FatalMessage == "fatal"

VARIABLES
    nodes,          \* ray.nodes(): host -> [alive, CPU, GPU]
    settings,       \* use_gpu, cpus_per_slot, gpus_per_slot, num_proc, nics
    blacklist,      \* RayHostDiscovery._blacklist (a list)
    actor_handles,  \* RayHostDiscovery._actor_handles: hostname -> worker
    disc_pc,        \* position of the discovery call: idle, sweep
    host_mapping,   \* find_available_hosts_and_slots' host_mapping
    pings,          \* ping_actors' pings: slot (hostname) -> pinged worker
    last_call,      \* history: what the latest discovery call read and returned
    workers,        \* worker instances, in spawn order
    return_values,  \* run()'s return_values list shared with worker_loop
    driver,         \* the Driver: state, hosts, results, error message
    exec_pc,        \* position of the executor: new .. finished
    run_result,     \* what run() did: raised or returned
    now,            \* the wall clock read by time.time()
    faults          \* environment events so far (node changes, task failures)

vars == <<nodes, settings, blacklist, actor_handles, disc_pc, host_mapping,
          pings, last_call, workers, return_values, driver, exec_pc, run_result, now,
          faults>>

discVars == <<blacklist, actor_handles, disc_pc, host_mapping, pings,
              last_call>>

envVars == <<nodes, settings, faults>>

\* ------------------------------------------------------------ dictionaries
EmptyDict == [k \in {} |-> 0]

DictPop(d, k) == [x \in (DOMAIN d) \ {k} |-> d[x]]

DictSet(d, k, v) == [x \in (DOMAIN d) \cup {k} |-> IF x = k THEN v ELSE d[x]]

\* `hostname in self._blacklist`
InList(list, x) == \E j \in 1..Len(list) : list[j] = x

Min(a, b) == IF a <= b THEN a ELSE b

RECURSIVE SumValues(_)
SumValues(d) ==
    IF DOMAIN d = {} THEN 0
    ELSE LET k == CHOOSE x \in DOMAIN d : TRUE
         IN d[k] + SumValues(DictPop(d, k))

\* ------------------------------------------------------- RayHostDiscovery
\* Line 60: `quantity // per_slot` on floats, a whole number held as a float
FloorDiv(q, per_slot) == (q \div (per_slot * Scale)) * Scale

\* Line 64: int(math.ceil(x))
Ceil(x) == (x + Scale - 1) \div Scale

\* Slot count of one node: floor division, minimum with the GPU share in
\* GPU mode, then math.ceil of the already integral quotient.
NodeSlots(node, cfg) ==
    LET cpu_slots == FloorDiv(node.CPU, cfg.cpus_per_slot)
    IN Ceil(IF cfg.use_gpu
            THEN Min(cpu_slots, FloorDiv(node.GPU, cfg.gpus_per_slot))
            ELSE cpu_slots)

\* The map built without looking at the blacklist
HostMappingIgnoresBlacklist(ns, bl, cfg) ==
    [h \in {x \in Hosts : ns[x].alive /\ NodeSlots(ns[x], cfg) # 0}
        |-> NodeSlots(ns[h], cfg)]

\* The map built without the test `if slots:`
HostMappingKeepZero(ns, bl, cfg) ==
    [h \in {x \in Hosts : ns[x].alive /\ ~InList(bl, x)}
        |-> NodeSlots(ns[h], cfg)]

\* The map built with the hosts that have a registered worker left out
HostMappingSkipsRegistered(ns, bl, cfg) ==
    [h \in {x \in Hosts : /\ ns[x].alive
                          /\ ~InList(bl, x)
                          /\ x \notin DOMAIN actor_handles
                          /\ NodeSlots(ns[x], cfg) # 0}
        |-> NodeSlots(ns[h], cfg)]

\* Lines 53-66: the map built from the alive, non-blacklisted nodes.
HostMapping(ns, bl, cfg) ==
    [h \in {x \in Hosts : /\ ns[x].alive
                          /\ ~InList(bl, x)
                          /\ NodeSlots(ns[x], cfg) # 0}
        |-> NodeSlots(ns[h], cfg)]

\* What a round trip to a worker's remote task does
PingReady(w) == workers[w].actor \in {"alive", "dead"}
PingRaises(w) == workers[w].actor = "dead"

DriverActive == driver.state \in {"created", "running"}

\* find_available_hosts_and_slots up to the start of the sweep: the map is
\* computed, then ping_actors issues one ping per registered handle.
FindStart ==
    /\ disc_pc = "idle"
    /\ DriverActive
    /\ host_mapping' = HostMapping(nodes, blacklist, settings)
    /\ pings' = actor_handles
    /\ disc_pc' = "sweep"
    /\ last_call' = [last_call EXCEPT
          !.called = TRUE, !.nodes = nodes, !.blacklist = blacklist,
          !.targets = actor_handles,
          !.repeat = /\ last_call.called
                     /\ last_call.nodes = nodes
                     /\ last_call.blacklist = blacklist]
    /\ UNCHANGED <<envVars, blacklist, actor_handles, workers,
                   return_values, driver, exec_pc, run_result, now>>

\* The iteration with the exception of a failed ping left to propagate
SweepReadyPropagates(h) ==
    /\ disc_pc = "sweep"
    /\ h \in DOMAIN pings
    /\ PingReady(pings[h])
    /\ pings' = DictPop(pings, h)
    /\ disc_pc' = IF PingRaises(pings[h]) THEN "raised" ELSE disc_pc
    /\ UNCHANGED <<envVars, blacklist, actor_handles, host_mapping, workers,
                   last_call,
                   return_values, driver, exec_pc, run_result, now>>

\* The iteration with the blacklist assigned, not appended to
SweepReadyResetsBlacklist(h) ==
    /\ disc_pc = "sweep"
    /\ h \in DOMAIN pings
    /\ PingReady(pings[h])
    /\ pings' = DictPop(pings, h)
    /\ IF PingRaises(pings[h])
       THEN /\ blacklist' = <<h>>
            /\ actor_handles' = DictPop(actor_handles, h)
       ELSE UNCHANGED <<blacklist, actor_handles>>
    /\ UNCHANGED <<envVars, disc_pc, host_mapping, workers, last_call,
                   return_values, driver, exec_pc, run_result, now>>

\* The iteration that also drops the registration of an answered ping
SweepReadyDropsAnswered(h) ==
    /\ disc_pc = "sweep"
    /\ h \in DOMAIN pings
    /\ PingReady(pings[h])
    /\ pings' = DictPop(pings, h)
    /\ actor_handles' = DictPop(actor_handles, h)
    /\ IF PingRaises(pings[h])
       THEN blacklist' = Append(blacklist, h)
       ELSE UNCHANGED blacklist
    /\ UNCHANGED <<envVars, disc_pc, host_mapping, workers, last_call,
                   return_values, driver, exec_pc, run_result, now>>

\* One iteration of the sweep loop in which ray.wait returns a ready ping.
SweepReady(h) ==
    /\ disc_pc = "sweep"
    /\ h \in DOMAIN pings
    /\ PingReady(pings[h])
    /\ pings' = DictPop(pings, h)
    /\ IF PingRaises(pings[h])
       THEN /\ blacklist' = Append(blacklist, h)
            /\ actor_handles' = DictPop(actor_handles, h)
       ELSE UNCHANGED <<blacklist, actor_handles>>
    /\ UNCHANGED <<envVars, disc_pc, host_mapping, workers, last_call,
                   return_values, driver, exec_pc, run_result, now>>

\* The sweep loop ends (no pings left, or the window elapsed with none of
\* the remaining pings ready) and the call returns host_mapping to the
\* Driver, which takes it as its capacity.
FindReturn ==
    /\ disc_pc = "sweep"
    /\ \/ DOMAIN pings = {}
       \/ \A h \in DOMAIN pings : ~PingReady(pings[h])
    /\ disc_pc' = "idle"
    /\ driver' = [driver EXCEPT !.current_hosts = host_mapping]
    /\ host_mapping' = EmptyDict
    /\ pings' = EmptyDict
    /\ last_call' = [last_call EXCEPT
          !.returned = host_mapping, !.targets = EmptyDict]
    /\ UNCHANGED <<envVars, blacklist, actor_handles, workers,
                   return_values, exec_pc, run_result, now>>

\* register_actor
RegisterActor(handles, actor, hostname) == DictSet(handles, hostname, actor)

\* ------------------------------------------------------------- the Driver
Active(w) == workers[w].pc # "done"

ActiveOnHost(h) == {w \in DOMAIN workers : Active(w) /\ workers[w].hostname = h}

AvailableSlots == SumValues(driver.current_hosts)

\* worker_results: {rank: (exit_code, timestamp)}, in insertion order; a
\* newer instance of a rank replaces the outcome of the one it superseded.
AddResult(results, name, value) ==
    IF \E j \in 1..Len(results) : results[j].name = name
    THEN [j \in 1..Len(results) |->
            IF results[j].name = name
            THEN [name |-> name, code |-> value[1], ts |-> value[2]]
            ELSE results[j]]
    ELSE Append(results, [name |-> name, code |-> value[1], ts |-> value[2]])

\* Fewest distinct hosts start() waits for: two when the network interfaces
\* have to be detected across hosts, one when they are configured.
MinStartHosts(cfg) == IF cfg.nics THEN 1 ELSE 2

\* The Driver fills a slot: it calls worker_loop for a new SlotAssignment
\* (rank r on host h), whose first statement creates the remote worker.
\* A remote worker bound to a node that is gone is never scheduled.
DriverSpawn(r, h) ==
    /\ exec_pc = "running"
    /\ driver.state = "running"
    /\ Len(workers) < MaxInst
    /\ h \in DOMAIN driver.current_hosts
    /\ Cardinality(ActiveOnHost(h)) < driver.current_hosts[h]
    /\ \A w \in DOMAIN workers : Active(w) => workers[w].rank # r
    /\ workers' = Append(workers,
          [rank |-> r, hostname |-> h, pc |-> "spawned",
           actor |-> IF nodes[h].alive THEN "alive" ELSE "wedged",
           future |-> "none", result |-> NoResult, event |-> FALSE,
           observed |-> "none", killed |-> FALSE, outcomes |-> 0])
    /\ UNCHANGED <<envVars, discVars, return_values, driver, exec_pc,
                   run_result, now>>

\* The Driver signals cancellation / reassignment to one worker.
DriverSetEvent(w) ==
    /\ driver.state = "running"
    /\ w \in DOMAIN workers
    /\ workers[w].pc = "polling"
    /\ ~workers[w].event
    /\ workers' = [workers EXCEPT ![w].event = TRUE]
    /\ UNCHANGED <<envVars, discVars, return_values, driver, exec_pc,
                   run_result, now>>

\* The Driver's job state becomes terminal with no slot active.
DriverFinish ==
    /\ driver.state = "running"
    /\ workers # <<>>
    /\ \A w \in DOMAIN workers : ~Active(w)
    /\ driver' = [driver EXCEPT !.state = "stopped"]
    /\ UNCHANGED <<envVars, discVars, workers, return_values, exec_pc,
                   run_result, now>>

\* The Driver gives up (reset limit, elastic timeout): fatal error message,
\* every worker still supervised is signalled.
DriverFatal ==
    /\ driver.state = "running"
    /\ driver' = [driver EXCEPT !.state = "stopped",
                                !.error_message = FatalMessage]
    /\ workers' = [w \in DOMAIN workers |->
                     IF Active(w) THEN [workers[w] EXCEPT !.event = TRUE]
                     ELSE workers[w]]
    /\ UNCHANGED <<envVars, discVars, return_values, exec_pc,
                   run_result, now>>

\* ------------------------------------------------------------ worker_loop
\* The value worker_fn returns on instance w (opaque to the executor).
RetVal(w) == 10 * w

\* time.time(): two outcomes are not produced at the same instant.
Times == {now + 1}

\* A worker_loop that does not register the handle it created
WRegisterSkipped(w) ==
    /\ w \in DOMAIN workers
    /\ workers[w].pc = "spawned"
    /\ workers' = [workers EXCEPT ![w].pc = "registered"]
    /\ UNCHANGED <<envVars, discVars, return_values, driver, exec_pc,
                   run_result, now>>

\* Line 294
WRegister(w) ==
    /\ w \in DOMAIN workers
    /\ workers[w].pc = "spawned"
    /\ actor_handles' = RegisterActor(actor_handles, w, workers[w].hostname)
    /\ workers' = [workers EXCEPT ![w].pc = "registered"]
    /\ UNCHANGED <<envVars, blacklist, disc_pc, host_mapping, pings, last_call,
                   return_values, driver, exec_pc, run_result, now>>

\* Lines 295-298: worker_fn is submitted, the result is a future.
WSubmit(w) ==
    /\ w \in DOMAIN workers
    /\ workers[w].pc = "registered"
    /\ workers' = [workers EXCEPT
          ![w].pc = "polling",
          ![w].future = IF workers[w].actor = "dead" THEN "error"
                        ELSE "pending"]
    /\ UNCHANGED <<envVars, discVars, return_values, driver, exec_pc,
                   run_result, now>>

\* A loop that polls again after a failed outcome
LoopContinuesOnFailure(result) == result = NoResult \/ result[1] # 0

\* `while result is None`
LoopContinues(result) == result = NoResult

\* An iteration that does not look at the events after a timeout
PollBranchNoCancel(future, any_event_set) ==
    CASE future = "value" -> "success"
      [] future = "pending" -> "again"
      [] OTHER -> "fail"

\* An iteration that takes an exception from the future for a value
PollBranchNoFail(future, any_event_set) ==
    CASE future = "pending" -> IF any_event_set THEN "kill" ELSE "again"
      [] OTHER -> "success"

\* An iteration that looks at the events before it looks at the future
PollBranchKillFirst(future, any_event_set) ==
    CASE any_event_set -> "kill"
      [] future = "value" -> "success"
      [] future = "pending" -> "again"
      [] OTHER -> "fail"

\* The branch one iteration takes, from what ray.get(future, timeout=0.1)
\* does (a value, GetTimeoutError, another exception) and the events.
PollBranch(future, any_event_set) ==
    CASE future = "value" -> "success"
      [] future = "pending" -> IF any_event_set THEN "kill" ELSE "again"
      [] OTHER -> "fail"

\* What one iteration does to the instance and to return_values
PollEffect(w, branch, t) ==
    CASE branch = "success" ->
           [worker |-> [workers[w] EXCEPT
                          !.result = <<0, t>>,
                          !.observed = workers[w].future,
                          !.outcomes = @ + 1],
            values |-> Append(return_values, <<workers[w].rank, RetVal(w)>>)]
      [] branch = "kill" ->
           [worker |-> [workers[w] EXCEPT
                          !.actor = "dead",
                          !.future = "error",
                          !.result = <<1, t>>,
                          !.observed = workers[w].future,
                          !.killed = TRUE,
                          !.outcomes = @ + 1],
            values |-> return_values]
      [] branch = "fail" ->
           [worker |-> [workers[w] EXCEPT
                          !.result = <<1, t>>,
                          !.observed = workers[w].future,
                          !.outcomes = @ + 1],
            values |-> return_values]
      [] OTHER ->
           [worker |-> workers[w], values |-> return_values]

\* An iteration whose failure sets the events of the other polling workers
WPollFailureCancelsOthers(w) ==
    /\ w \in DOMAIN workers
    /\ workers[w].pc = "polling"
    /\ \E t \in Times :
         LET branch == PollBranch(workers[w].future, workers[w].event)
             after == PollEffect(w, branch, t)
             others == [v \in DOMAIN workers |->
                          IF branch \in {"kill", "fail"}
                             /\ workers[v].pc = "polling"
                          THEN [workers[v] EXCEPT !.event = TRUE]
                          ELSE workers[v]]
         IN /\ return_values' = after.values
            /\ now' = IF branch = "again" THEN now ELSE t
            /\ IF LoopContinues(after.worker.result)
               THEN /\ workers' = [others EXCEPT ![w] = after.worker]
                    /\ UNCHANGED driver
               ELSE /\ workers' = [others EXCEPT
                                     ![w] = [after.worker EXCEPT !.pc = "done"]]
                    /\ driver' = [driver EXCEPT !.worker_results =
                          AddResult(@, workers[w].rank, after.worker.result)]
    /\ UNCHANGED <<envVars, discVars, exec_pc, run_result>>

\* Lines 301-318: one iteration of the poll loop; when the loop test then
\* fails, worker_loop returns the result to the Driver, which records it
\* under the instance's rank.
WPoll(w) ==
    /\ w \in DOMAIN workers
    /\ workers[w].pc = "polling"
    /\ \E t \in Times :
         LET branch == PollBranch(workers[w].future, workers[w].event)
             after == PollEffect(w, branch, t)
         IN /\ return_values' = after.values
            /\ now' = IF branch = "again" THEN now ELSE t
            /\ IF LoopContinues(after.worker.result)
               THEN /\ workers' = [workers EXCEPT ![w] = after.worker]
                    /\ UNCHANGED driver
               ELSE /\ workers' = [workers EXCEPT
                                     ![w] = [after.worker EXCEPT !.pc = "done"]]
                    /\ driver' = [driver EXCEPT !.worker_results =
                          AddResult(@, workers[w].rank, after.worker.result)]
    /\ UNCHANGED <<envVars, discVars, exec_pc, run_result>>

\* ----------------------------------------------------- ElasticRayExecutor
\* Lines 224-235: the Driver is built on the discovery strategy.
StartDriver ==
    /\ exec_pc = "new"
    /\ driver' = [driver EXCEPT !.state = "created"]
    /\ exec_pc' = "wait1"
    /\ UNCHANGED <<envVars, discVars, workers, return_values,
                   run_result, now>>

\* wait_for_available_slots(target, min_hosts) lets the caller through
WaitSatisfied(target, min_hosts) ==
    /\ AvailableSlots >= target
    /\ Cardinality(DOMAIN driver.current_hosts) >= min_hosts

\* A start() that goes on to interface detection after the first wait
StartWait1SkipsSecond ==
    /\ exec_pc = "wait1"
    /\ WaitSatisfied(settings.num_proc, 0)
    /\ exec_pc' = "started"
    /\ UNCHANGED <<envVars, discVars, workers, return_values, driver,
                   run_result, now>>

\* Line 238: the first wait, with no floor on the number of hosts.
StartWait1 ==
    /\ exec_pc = "wait1"
    /\ WaitSatisfied(settings.num_proc, 0)
    /\ exec_pc' = "wait2"
    /\ UNCHANGED <<envVars, discVars, workers, return_values, driver,
                   run_result, now>>

\* Lines 242-256: the second wait, then interface detection and the run
\* environment.
StartWait2 ==
    /\ exec_pc = "wait2"
    /\ WaitSatisfied(settings.num_proc, MinStartHosts(settings))
    /\ exec_pc' = "started"
    /\ UNCHANGED <<envVars, discVars, workers, return_values, driver,
                   run_result, now>>

\* Lines 331-334: run() hands the Driver the worker_loop factory.
RunStart ==
    /\ exec_pc = "started"
    /\ return_values' = <<>>
    /\ driver' = [driver EXCEPT !.state = "running"]
    /\ exec_pc' = "running"
    /\ UNCHANGED <<envVars, discVars, workers, run_result, now>>

\* sorted(items, key=...) is stable: insertion after the last key <= x's
RECURSIVE InsertByTs(_, _)
InsertByTs(sorted, x) ==
    IF sorted = <<>> THEN <<x>>
    ELSE IF sorted[Len(sorted)].ts <= x.ts THEN Append(sorted, x)
    ELSE Append(InsertByTs(SubSeq(sorted, 1, Len(sorted) - 1), x),
                sorted[Len(sorted)])

RECURSIVE InsertByName(_, _)
InsertByName(sorted, x) ==
    IF sorted = <<>> THEN <<x>>
    ELSE IF sorted[Len(sorted)].name <= x.name THEN Append(sorted, x)
    ELSE Append(InsertByName(SubSeq(sorted, 1, Len(sorted) - 1), x),
                sorted[Len(sorted)])

RECURSIVE InsertByRank(_, _)
InsertByRank(sorted, x) ==
    IF sorted = <<>> THEN <<x>>
    ELSE IF sorted[Len(sorted)][1] <= x[1] THEN Append(sorted, x)
    ELSE Append(InsertByRank(SubSeq(sorted, 1, Len(sorted) - 1), x),
                sorted[Len(sorted)])

RECURSIVE SortedByName(_)
SortedByName(items) ==
    IF items = <<>> THEN <<>>
    ELSE InsertByName(SortedByName(SubSeq(items, 1, Len(items) - 1)),
                      items[Len(items)])

\* Line 341-342: sorted(res.worker_results.items(), key=timestamp)
RECURSIVE SortedByTimestamp(_)
SortedByTimestamp(items) ==
    IF items = <<>> THEN <<>>
    ELSE InsertByTs(SortedByTimestamp(SubSeq(items, 1, Len(items) - 1)),
                    items[Len(items)])

Unsorted(pairs) == pairs

\* Line 354: sorted(return_values, key=rank)
RECURSIVE SortedByRank(_)
SortedByRank(pairs) ==
    IF pairs = <<>> THEN <<>>
    ELSE InsertByRank(SortedByRank(SubSeq(pairs, 1, Len(pairs) - 1)),
                      pairs[Len(pairs)])

\* The text of the error run() raises for a failed worker
WorkerFailure == "one or more processes exited with non-zero status"

Raised(message, name, code) ==
    [kind |-> "raise", message |-> message, name |-> name, code |-> code,
     values |-> <<>>]

Returned(values) ==
    [kind |-> "return", message |-> None, name |-> -1, code |-> 0,
     values |-> values]

Failed(outcome) == outcome.code # 0

\* The scan of lines 341-351 stopping after the first outcome, failed or not
FailuresHeadOnly(results) ==
    LET scan == SortedByTimestamp(results)
    IN IF scan # <<>> /\ Failed(scan[1]) THEN <<scan[1]>> ELSE <<>>

\* Lines 341-344: the outcomes with a nonzero exit code, in the order the
\* loop meets them
Failures(results) == SelectSeq(SortedByTimestamp(results), Failed)

\* Lines 338-356 with the two checks in the other order
RunScanFirst(error_message, results, values) ==
    IF Failures(results) # <<>>
    THEN Raised(WorkerFailure, Head(Failures(results)).name,
                Head(Failures(results)).code)
    ELSE IF error_message # None
    THEN Raised(error_message, -1, 0)
    ELSE Returned([j \in 1..Len(values) |-> SortedByRank(values)[j][2]])

\* Lines 338-356: what run() does with the Driver's result
Run(error_message, results, values) ==
    IF error_message # None
    THEN Raised(error_message, -1, 0)
    ELSE IF Failures(results) # <<>>
    THEN Raised(WorkerFailure, Head(Failures(results)).name,
                Head(Failures(results)).code)
    ELSE Returned([j \in 1..Len(values) |-> SortedByRank(values)[j][2]])

\* Lines 335-356: get_results() returns once the Driver is terminal and no
\* slot is active.
RunFinish ==
    /\ exec_pc = "running"
    /\ driver.state = "stopped"
    /\ \A w \in DOMAIN workers : ~Active(w)
    /\ run_result' = Run(driver.error_message, driver.worker_results,
                         return_values)
    /\ exec_pc' = "finished"
    /\ UNCHANGED <<envVars, discVars, workers, return_values, driver,
                   now>>

\* ------------------------------------------------------------ environment
\* The cluster's membership table marks a node dead or alive.
NodeChange(h) ==
    /\ DriverActive
    /\ faults < MaxFaults
    /\ faults' = faults + 1
    /\ nodes' = [nodes EXCEPT ![h].alive = ~@]
    /\ UNCHANGED <<settings, discVars, workers, return_values, driver,
                   exec_pc, run_result, now>>

Registered(w) == \E h \in DOMAIN actor_handles : actor_handles[h] = w

\* A worker's remote task dies (process crash, node loss).
ActorDies(w) ==
    /\ w \in DOMAIN workers
    /\ faults < MaxFaults
    /\ faults' = faults + 1
    /\ Active(w) \/ (Registered(w) /\ DriverActive)
    /\ workers[w].actor # "dead"
    /\ workers' = [workers EXCEPT
          ![w].actor = "dead",
          ![w].future = IF @ = "pending" THEN "error" ELSE @]
    /\ UNCHANGED <<nodes, settings, discVars, return_values, driver, exec_pc,
                   run_result, now>>

\* A worker's remote task stops responding without dying.
ActorWedges(w) ==
    /\ w \in DOMAIN workers
    /\ faults < MaxFaults
    /\ faults' = faults + 1
    /\ Active(w) \/ (Registered(w) /\ DriverActive)
    /\ workers[w].actor = "alive"
    /\ workers' = [workers EXCEPT ![w].actor = "wedged"]
    /\ UNCHANGED <<nodes, settings, discVars, return_values, driver, exec_pc,
                   run_result, now>>

\* worker_fn returns or raises on the remote task.
FnEnds(w, how) ==
    /\ w \in DOMAIN workers
    /\ workers[w].future = "pending"
    /\ workers[w].actor = "alive"
    /\ workers' = [workers EXCEPT ![w].future = how]
    /\ UNCHANGED <<envVars, discVars, return_values, driver, exec_pc,
                   run_result, now>>

\* ------------------------------------------------------------------ system
Init ==
    /\ nodes = [h \in Hosts |->
                  [alive |-> TRUE, CPU |-> 2 * Scale, GPU |-> 0]]
    /\ settings = [use_gpu |-> FALSE, cpus_per_slot |-> 1,
                    gpus_per_slot |-> 0, num_proc |-> 1, nics |-> FALSE]
    /\ blacklist = <<>>
    /\ actor_handles = EmptyDict
    /\ disc_pc = "idle"
    /\ host_mapping = EmptyDict
    /\ pings = EmptyDict
    /\ last_call = [called |-> FALSE, nodes |-> nodes, blacklist |-> <<>>,
                    returned |-> EmptyDict, repeat |-> FALSE,
                    targets |-> EmptyDict]
    /\ workers = <<>>
    /\ return_values = <<>>
    /\ driver = [state |-> "none", current_hosts |-> EmptyDict,
                 worker_results |-> <<>>, error_message |-> None]
    /\ exec_pc = "new"
    /\ run_result = [kind |-> "none", message |-> None, name |-> -1,
                     code |-> 0, values |-> <<>>]
    /\ now = 0
    /\ faults = 0

Next ==
    \/ FindStart
    \/ \E h \in Hosts : SweepReady(h)
    \/ FindReturn
    \/ \E r \in Ranks, h \in Hosts : DriverSpawn(r, h)
    \/ \E w \in Insts : DriverSetEvent(w)
    \/ DriverFinish
    \/ DriverFatal
    \/ \E w \in Insts : WRegister(w)
    \/ \E w \in Insts : WSubmit(w)
    \/ \E w \in Insts : WPoll(w)
    \/ StartDriver
    \/ StartWait1
    \/ StartWait2
    \/ RunStart
    \/ RunFinish
    \/ \E h \in Hosts : NodeChange(h)
    \/ \E w \in Insts : ActorDies(w)
    \/ \E w \in Insts : ActorWedges(w)
    \/ \E w \in Insts, how \in {"value", "error"} : FnEnds(w, how)

Spec == Init /\ [][Next]_vars

\* With the scheduling the threads get: every supervised worker's poll
\* loop keeps running.
FairSpec == Spec /\ \A w \in Insts : WF_vars(WPoll(w))

\* ------------------------------------------------------------------ claims
Finished == exec_pc = "finished"

Results == driver.worker_results

HasOutcome(r) == \E j \in 1..Len(Results) : Results[j].name = r

\* The rank of the instance a return value comes from
RankOfValue(v) == workers[v \div 10].rank

ValuesOfRank(list, r) == {j \in 1..Len(list) : RankOfValue(list[j]) = r}

\* C1: the SlotMap a discovery call returns holds no host that is in the
\* blacklist when the call returns (between a return and the next call
\* neither the returned map nor the blacklist changes).
ReturnedMapExcludesBlacklist ==
    disc_pc = "idle" =>
        \A h \in DOMAIN driver.current_hosts : ~InList(blacklist, h)

\* C2: with no fatal error message and at least one outcome with a nonzero
\* exit code, run() raises and returns no list.
AllOrNothing ==
    (/\ Finished
     /\ driver.error_message = None
     /\ \E j \in 1..Len(Results) : Results[j].code # 0)
    => (run_result.kind = "raise" /\ run_result.values = <<>>)

AllOrNothingWitness ==
    /\ Finished
    /\ driver.error_message = None
    /\ \E j \in 1..Len(Results) : Results[j].code # 0
    /\ \E j \in 1..Len(Results) : Results[j].code = 0
    /\ return_values # <<>>
    /\ run_result.kind = "raise"

\* C3: the error run() raises for a worker failure names an outcome with a
\* nonzero exit code whose timestamp is the earliest among the outcomes
\* with a nonzero exit code, whatever its rank.
FirstFailureNamed ==
    (Finished /\ run_result.kind = "raise"
              /\ run_result.message = WorkerFailure)
    => \E j \in 1..Len(Results) :
          /\ Results[j].name = run_result.name
          /\ Results[j].code = run_result.code
          /\ Results[j].code # 0
          /\ \A k \in 1..Len(Results) :
                Results[k].code # 0 => Results[j].ts <= Results[k].ts

FirstFailureNamedWitness ==
    /\ Finished
    /\ run_result.kind = "raise"
    /\ run_result.message = WorkerFailure
    /\ \E k \in 1..Len(Results) :
          /\ Results[k].code # 0
          /\ Results[k].name < run_result.name

\* C4: when every outcome has exit code 0 and there is no fatal error,
\* run() returns the recorded return values in ascending order of rank.
RankOrdered ==
    (/\ Finished
     /\ driver.error_message = None
     /\ \A j \in 1..Len(Results) : Results[j].code = 0)
    => /\ run_result.kind = "return"
       /\ Len(run_result.values) = Len(return_values)
       /\ {run_result.values[j] : j \in 1..Len(run_result.values)}
            = {return_values[j][2] : j \in 1..Len(return_values)}
       /\ \A j, k \in 1..Len(run_result.values) :
             j < k => RankOfValue(run_result.values[j])
                        <= RankOfValue(run_result.values[k])

RankOrderedWitness ==
    /\ Finished
    /\ run_result.kind = "return"
    /\ \E j, k \in 1..Len(return_values) :
          j < k /\ return_values[j][1] > return_values[k][1]

\* C5: a list run() returns holds exactly one value for every rank that
\* has an outcome in the Driver's result, and none for any other rank.
CompleteResultList ==
    (Finished /\ run_result.kind = "return")
    => \A r \in Ranks :
          Cardinality(ValuesOfRank(run_result.values, r))
            = IF HasOutcome(r) THEN 1 ELSE 0

\* C6: with a fatal error message in the Driver's result run() raises an
\* error carrying that message and returns nothing, whatever the outcomes.
FatalErrorWins ==
    (Finished /\ driver.error_message # None)
    => /\ run_result.kind = "raise"
       /\ run_result.message = driver.error_message
       /\ run_result.values = <<>>

FatalErrorWinsWitness ==
    /\ Finished
    /\ driver.error_message # None
    /\ Results # <<>>
    /\ \A j \in 1..Len(Results) : Results[j].code = 0
    /\ run_result.kind = "raise"

\* C7: every worker instance produces exactly one outcome: none while its
\* poll loop runs, one when worker_loop has returned, never a second.
OneOutcomePerInstance ==
    \A w \in DOMAIN workers :
        /\ workers[w].outcomes <= 1
        /\ workers[w].pc = "done" <=> workers[w].outcomes = 1
        /\ workers[w].pc = "done" <=> workers[w].result # NoResult

OneOutcomePerInstanceWitness ==
    \E v, w \in DOMAIN workers :
        /\ v # w
        /\ workers[v].rank = workers[w].rank
        /\ workers[v].pc = "done" /\ workers[v].killed
        /\ workers[w].pc = "done" /\ workers[w].result[1] = 0

PairsOf(w) ==
    {j \in 1..Len(return_values) : return_values[j][2] = RetVal(w)}

\* C8: an instance's exit code is 0 exactly when its last poll found the
\* future completed with a value, and then one (rank, value) pair of it is
\* recorded; after an exception or a forced kill the exit code is 1 and no
\* pair of it is recorded.
ExitCodeMatchesEnd ==
    \A w \in DOMAIN workers :
        workers[w].pc = "done" =>
            /\ workers[w].result[1] = 0 <=> workers[w].observed = "value"
            /\ workers[w].result[1] = 0 =>
                  /\ ~workers[w].killed
                  /\ Cardinality(PairsOf(w)) = 1
                  /\ \A j \in PairsOf(w) :
                        return_values[j][1] = workers[w].rank
            /\ workers[w].result[1] # 0 =>
                  /\ workers[w].result[1] = 1
                  /\ PairsOf(w) = {}

ExitCodeMatchesEndWitness ==
    \E v, w \in DOMAIN workers :
        /\ workers[v].pc = "done" /\ workers[v].observed = "error"
        /\ ~workers[v].killed
        /\ workers[w].pc = "done" /\ workers[w].killed

Cancelled(w) ==
    /\ w \in DOMAIN workers
    /\ workers[w].pc = "polling"
    /\ workers[w].event
    /\ workers[w].future = "pending"

KilledOrCompleted(w) ==
    /\ w \in DOMAIN workers
    /\ \/ /\ workers[w].killed
          /\ workers[w].actor = "dead"
          /\ workers[w].pc = "done"
          /\ workers[w].result[1] = 1
       \/ /\ ~workers[w].killed
          /\ workers[w].future # "pending"

\* C9: a polling worker whose event is set and whose future is pending is
\* eventually force-killed and ends with exit code 1, unless its future
\* completes or raises before the next poll.
CancelLeadsToKill == \A w \in Insts : Cancelled(w) ~> KilledOrCompleted(w)

CancelLeadsToKillWitness ==
    \E w \in DOMAIN workers :
        /\ workers[w].killed
        /\ workers[w].event
        /\ workers[w].result[1] = 1
        /\ driver.error_message = None

\* C10: when a sweep ends, every worker whose ping is still unanswered has
\* its host in the blacklist and its registration removed.
UnansweredPingBlacklists ==
    [][(disc_pc = "sweep" /\ disc_pc' = "idle") =>
          \A h \in DOMAIN pings :
              /\ InList(blacklist', h)
              /\ h \notin DOMAIN actor_handles']_vars

\* A step of the sweep in which the ping to the worker registered for h
\* is taken from pings and raises
PingRaisesStep(h) ==
    /\ disc_pc = "sweep"
    /\ h \in DOMAIN pings
    /\ h \notin DOMAIN pings'
    /\ PingRaises(pings[h])

\* C11: when a ping raises, the sweep blacklists the worker's host and
\* removes its registration, and the discovery call goes on with its map
\* untouched (the exception does not leave the call).
PingFailureHandled ==
    [][\A h \in Hosts :
          PingRaisesStep(h) =>
              /\ InList(blacklist', h)
              /\ h \notin DOMAIN actor_handles'
              /\ disc_pc' = "sweep"
              /\ host_mapping' = host_mapping]_vars

PingFailureHandledWitness ==
    /\ disc_pc = "idle"
    /\ blacklist # <<>>
    /\ DOMAIN driver.current_hosts # {}
    /\ \A h \in Hosts : InList(blacklist, h) => h \notin DOMAIN actor_handles

\* C12: no step removes a host from the blacklist.
BlacklistMonotonic ==
    [][\A h \in Hosts : InList(blacklist, h) => InList(blacklist', h)]_vars

BlacklistMonotonicWitness ==
    \E g, h \in Hosts : g # h /\ InList(blacklist, g) /\ InList(blacklist, h)

\* C13: a discovery call computes its map without any host that is in the
\* blacklist when the call starts, keeps the map through the sweep and
\* returns it: a blacklisted host is in no map of a later call, whatever
\* the cluster reports and whoever registers.
BlacklistedStaysExcluded ==
    [][/\ (disc_pc = "idle" /\ disc_pc' = "sweep") =>
             \A h \in Hosts :
                 InList(blacklist, h) => h \notin DOMAIN host_mapping'
       /\ (disc_pc = "sweep" /\ disc_pc' = "sweep") =>
             host_mapping' = host_mapping
       /\ (disc_pc = "sweep" /\ disc_pc' = "idle") =>
             driver'.current_hosts = host_mapping]_vars

BlacklistedStaysExcludedWitness ==
    \E h \in Hosts :
        /\ InList(blacklist, h)
        /\ nodes[h].alive
        /\ h \in DOMAIN actor_handles
        /\ disc_pc = "idle"
        /\ h \notin DOMAIN driver.current_hosts
        /\ DOMAIN driver.current_hosts # {}

\* C17: start() passes its first wait only with the available slots at
\* least num_proc, and only into the second wait; it passes the second
\* wait only with the slots at least num_proc and the hosts at least the
\* minimum; interface detection and the run environment come only after
\* the second wait; capacity alone lets the first wait through.
StartWaitsInOrder ==
    [][/\ (exec_pc = "wait1" /\ exec_pc' # "wait1") =>
             /\ exec_pc' = "wait2"
             /\ AvailableSlots >= settings.num_proc
       /\ (exec_pc = "wait2" /\ exec_pc' # "wait2") =>
             /\ exec_pc' = "started"
             /\ AvailableSlots >= settings.num_proc
             /\ Cardinality(DOMAIN driver.current_hosts)
                   >= MinStartHosts(settings)
       /\ (exec_pc # "started" /\ exec_pc' = "started") => exec_pc = "wait2"
       /\ (exec_pc = "wait1" /\ AvailableSlots >= settings.num_proc) =>
             ENABLED StartWait1]_vars

StartWaitsInOrderWitness ==
    /\ exec_pc = "started"
    /\ AvailableSlots >= settings.num_proc
    /\ Cardinality(DOMAIN driver.current_hosts) >= MinStartHosts(settings)

\* The fields of an instance whose worker_fn has not been submitted
NotSubmitted(wk) ==
    /\ wk.future = "none"
    /\ wk.result = NoResult
    /\ wk.outcomes = 0
    /\ wk.observed = "none"
    /\ ~wk.killed

\* C19: an instance starts spawned, is registered with the discovery
\* strategy next (under its hostname), has worker_fn submitted after that,
\* and ends only from the poll loop; before the submission it has no
\* future and no outcome.
SpawnRegisterRun ==
    [][/\ \A w \in DOMAIN workers' :
             /\ w \notin DOMAIN workers => workers'[w].pc = "spawned"
             /\ workers'[w].pc \in {"spawned", "registered"} =>
                   NotSubmitted(workers'[w])
       /\ \A w \in DOMAIN workers :
             /\ w \in DOMAIN workers'
             /\ workers'[w].pc # workers[w].pc =>
                   \/ /\ workers[w].pc = "spawned"
                      /\ workers'[w].pc = "registered"
                      /\ workers[w].hostname \in DOMAIN actor_handles'
                      /\ actor_handles'[workers[w].hostname] = w
                   \/ /\ workers[w].pc = "registered"
                      /\ workers'[w].pc = "polling"
                      /\ workers'[w].future # "none"
                      /\ workers'[w].outcomes = 0
                   \/ /\ workers[w].pc = "polling"
                      /\ workers'[w].pc = "done"
                      /\ workers'[w].outcomes = 1]_vars

SpawnRegisterRunWitness ==
    \E w \in DOMAIN workers :
        /\ workers[w].pc = "done"
        /\ workers[w].result # NoResult
        /\ workers[w].result[1] = 0

\* C20: a killed instance was killed in an iteration that timed out with
\* an event set; an iteration that found the value gave exit code 0 and
\* recorded the value, without a kill, whatever the events; an iteration
\* that found another exception gave exit code 1 without a kill; and an
\* iteration that times out with no event set leaves the instance polling
\* with no outcome.
KillOnlyOnCancelledTimeout ==
    [][\A w \in DOMAIN workers' :
          LET wk == workers'[w] IN
          /\ wk.killed =>
                /\ wk.observed = "pending"
                /\ wk.event
                /\ wk.result[1] = 1
          /\ wk.observed = "value" =>
                /\ ~wk.killed
                /\ wk.result[1] = 0
                /\ \E i \in DOMAIN return_values' :
                      return_values'[i] = <<wk.rank, RetVal(w)>>
          /\ wk.observed = "error" =>
                /\ ~wk.killed
                /\ wk.result[1] = 1
          /\ (/\ w \in DOMAIN workers
              /\ workers[w].pc = "polling"
              /\ workers[w].future = "pending"
              /\ ~workers[w].event) =>
                /\ wk.pc = "polling"
                /\ wk.result = NoResult
                /\ ~wk.killed]_vars

KillOnlyOnCancelledTimeoutWitness ==
    \E w \in DOMAIN workers :
        /\ workers[w].pc = "done"
        /\ workers[w].observed = "value"
        /\ workers[w].event
        /\ ~workers[w].killed
        /\ workers[w].result[1] = 0

\* An instance in its poll loop whose future is not complete and whose
\* event is not set
PollingUncancelled(w) ==
    /\ w \in DOMAIN workers
    /\ workers[w].pc = "polling"
    /\ workers[w].future = "pending"
    /\ ~workers[w].event

\* C18: the poll loop is bounded by a deadline: no instance stays in the
\* loop for ever with its future never completing and its event never set.
PollLoopBounded ==
    \A w \in Insts : []<>(~PollingUncancelled(w))

\* ------------------------------------------- the slot count, on its own
\* The discovery strategy over every cluster report and configuration
\* within the bounds: quantities in steps of 1/Scale, a per-slot
\* requirement of at least one, gpus_per_slot read only in GPU mode.
NodeReports ==
    [alive : BOOLEAN, CPU : 0..(MaxCPU * Scale), GPU : 0..(MaxGPU * Scale)]

Configurations ==
    {[use_gpu |-> g, cpus_per_slot |-> c, gpus_per_slot |-> p,
      num_proc |-> 1, nics |-> FALSE] :
        g \in BOOLEAN, c \in 1..MaxPerSlot, p \in 1..MaxPerSlot}

InitSlots ==
    /\ nodes \in [Hosts -> NodeReports]
    /\ settings \in Configurations
    /\ blacklist \in {<<>>, <<1>>}
    /\ actor_handles = EmptyDict
    /\ disc_pc = "idle"
    /\ host_mapping = EmptyDict
    /\ pings = EmptyDict
    /\ last_call = [called |-> FALSE, nodes |-> nodes, blacklist |-> <<>>,
                    returned |-> EmptyDict, repeat |-> FALSE,
                    targets |-> EmptyDict]
    /\ workers = <<>>
    /\ return_values = <<>>
    /\ driver = [state |-> "created", current_hosts |-> EmptyDict,
                 worker_results |-> <<>>, error_message |-> None]
    /\ exec_pc = "wait1"
    /\ run_result = [kind |-> "none", message |-> None, name |-> -1,
                     code |-> 0, values |-> <<>>]
    /\ now = 0
    /\ faults = 0

NextSlots ==
    \/ FindStart
    \/ FindReturn

SpecSlots == InitSlots /\ [][NextSlots]_vars

\* q / per_slot rounded up to the nearest integer, q held as q * Scale
CeilDiv(q, per_slot) ==
    (q + per_slot * Scale - 1) \div (per_slot * Scale)

\* The slot count of a node as the claim C15 words it
RoundedUpSlots(node, cfg) ==
    IF cfg.use_gpu
    THEN Min(CeilDiv(node.CPU, cfg.cpus_per_slot),
             CeilDiv(node.GPU, cfg.gpus_per_slot))
    ELSE CeilDiv(node.CPU, cfg.cpus_per_slot)

\* C15: the map a discovery call computes gives every alive node that is
\* not blacklisted its CPU quantity divided by cpus_per_slot (in GPU mode
\* the minimum of that and the GPU quantity divided by gpus_per_slot)
\* rounded up, a node with a count of zero being left out.
SlotsRoundedUp ==
    disc_pc = "sweep" =>
        \A h \in Hosts :
            (nodes[h].alive /\ ~InList(blacklist, h)) =>
                LET n == RoundedUpSlots(nodes[h], settings)
                IN IF n = 0 THEN h \notin DOMAIN host_mapping
                   ELSE /\ h \in DOMAIN host_mapping
                        /\ host_mapping[h] = n

\* C16: every value of a computed or returned map is at least one, a node
\* whose count is zero is left out of it, so a map that is not empty has a
\* positive total.
SlotsPositive ==
    /\ \A h \in DOMAIN host_mapping : host_mapping[h] >= 1
    /\ \A h \in DOMAIN driver.current_hosts : driver.current_hosts[h] >= 1
    /\ DOMAIN driver.current_hosts # {} => SumValues(driver.current_hosts) >= 1
    /\ disc_pc = "sweep" =>
          \A h \in Hosts :
              (nodes[h].alive /\ NodeSlots(nodes[h], settings) = 0) =>
                  h \notin DOMAIN host_mapping

SlotsPositiveWitness ==
    /\ disc_pc = "idle"
    /\ DOMAIN driver.current_hosts # {}
    /\ \E h \in Hosts :
          /\ nodes[h].alive
          /\ ~InList(blacklist, h)
          /\ nodes[h].CPU > 0
          /\ NodeSlots(nodes[h], settings) = 0
          /\ h \notin DOMAIN driver.current_hosts

\* C14: a discovery call that starts with the cluster's report as the
\* previous call read it and with no ping having raised since (the
\* blacklist as the previous call read it) computes, and then returns, the
\* map the previous call returned.
DiscoveryIdempotent ==
    /\ (disc_pc = "sweep" /\ last_call.repeat) =>
          host_mapping = last_call.returned
    /\ (disc_pc = "idle" /\ last_call.repeat) =>
          driver.current_hosts = last_call.returned

DiscoveryIdempotentWitness ==
    /\ disc_pc = "idle"
    /\ last_call.repeat
    /\ nodes = last_call.nodes
    /\ blacklist = last_call.blacklist
    /\ DOMAIN last_call.returned # {}
    /\ DOMAIN actor_handles # {}
    /\ \E h \in Hosts : ~nodes[h].alive \/ InList(blacklist, h)

\* The step in which the poll loop of instance w ends in failure
EndsInFailure(w) ==
    /\ w \in DOMAIN workers
    /\ workers[w].pc = "polling"
    /\ workers'[w].pc = "done"
    /\ workers'[w].result[1] # 0

\* C21: the step in which one instance ends in failure (its function
\* raised, or it was killed) changes nothing of any other instance (its
\* position, future, event, outcome) and adds or removes no return value.
FailureLeavesOthersPolling ==
    [][\A w \in Insts :
          EndsInFailure(w) =>
              /\ \A v \in DOMAIN workers \ {w} : workers'[v] = workers[v]
              /\ DOMAIN workers' = DOMAIN workers
              /\ return_values' = return_values]_vars

FailureLeavesOthersPollingWitness ==
    \E w, v \in DOMAIN workers :
        /\ w # v
        /\ workers[w].pc = "done"
        /\ workers[w].result[1] = 1
        /\ workers[v].pc = "done"
        /\ workers[v].result[1] = 0
        /\ workers[v].result[2] > workers[w].result[2]
        /\ ~workers[v].event
        /\ \E i \in DOMAIN return_values :
              return_values[i] = <<workers[v].rank, RetVal(v)>>

\* An instance for which register_actor has been called, whose supervision
\* is still running, and whose host is not blacklisted
RegisteredActive(w) ==
    /\ w \in DOMAIN workers
    /\ workers[w].pc \in {"registered", "polling"}
    /\ ~InList(blacklist, workers[w].hostname)

\* C22: the sweep of a discovery call pings every worker registered when it
\* starts, workers on one host included, unless its host is blacklisted.
SweepPingsEveryRegistered ==
    [][(disc_pc = "idle" /\ disc_pc' = "sweep") =>
          \A w \in Insts :
              RegisteredActive(w) =>
                  \E s \in DOMAIN pings' : pings'[s] = w]_vars

\* C23: a registration, once recorded, stays as it is until its host is
\* blacklisted: no step removes it or puts another worker in its place.
RegistrationKept ==
    [][\A h \in DOMAIN actor_handles :
          \/ /\ h \in DOMAIN actor_handles'
             /\ actor_handles'[h] = actor_handles[h]
          \/ /\ ~InList(blacklist, h)
             /\ InList(blacklist', h)]_vars

\* C27: no host is in the blacklist and a key of the registration map at
\* the same time.
BlacklistedNotRegistered ==
    \A h \in Hosts : ~(InList(blacklist, h) /\ h \in DOMAIN actor_handles)

\* C25: with no node change and no remote task failing of its own, a host
\* on which a worker was force-killed for a cancellation event is not
\* blacklisted, so later discovery calls still return it.
KillDoesNotBlacklist ==
    \A w \in DOMAIN workers :
        (workers[w].killed /\ faults = 0) =>
            ~InList(blacklist, workers[w].hostname)

\* The registration of host h was made while the running sweep still has
\* its ping to the worker registered for h before
RegisteredDuringSweep(h) ==
    /\ disc_pc = "sweep"
    /\ h \in DOMAIN actor_handles
    /\ h \in DOMAIN pings
    /\ pings[h] # actor_handles[h]

\* C24: a registration made for host h while a sweep is running is not
\* removed by that sweep and h is not blacklisted by it (the sweep holds no
\* ping to the newly registered worker, so none can have failed).
RegistrationSurvivesSweep ==
    [][\A h \in Hosts :
          RegisteredDuringSweep(h) =>
              /\ h \in DOMAIN actor_handles'
              /\ InList(blacklist', h) => InList(blacklist, h)]_vars

\* Host h has the same blacklist membership and the same registration
\* before and after the step
HostUntouched(h) ==
    /\ InList(blacklist', h) <=> InList(blacklist, h)
    /\ h \in DOMAIN actor_handles' <=> h \in DOMAIN actor_handles
    /\ h \in DOMAIN actor_handles => actor_handles'[h] = actor_handles[h]

\* C26: the steps of a discovery call change the blacklist and the
\* registration map only in the iteration that takes a ping that raises,
\* and there only for that ping's host: computing the map, an answered
\* ping and the return leave both as they were.
SweepChangesOnlyFailedHosts ==
    [][/\ disc_pc' # disc_pc =>
             /\ blacklist' = blacklist
             /\ actor_handles' = actor_handles
       /\ (disc_pc = "sweep" /\ disc_pc' = "sweep" /\ pings' # pings) =>
             \A h \in Hosts :
                 (h \in DOMAIN pings /\ h \notin DOMAIN pings'
                      /\ PingRaises(pings[h]))
                 \/ HostUntouched(h)]_vars

SweepChangesOnlyFailedHostsWitness ==
    /\ disc_pc = "sweep"
    /\ pings = EmptyDict
    /\ \E g, h \in DOMAIN last_call.targets :
          /\ g # h
          /\ InList(blacklist, h)
          /\ ~InList(last_call.blacklist, h)
          /\ ~InList(blacklist, g)
          /\ g \in DOMAIN actor_handles
          /\ actor_handles[g] = last_call.targets[g]
          /\ workers[actor_handles[g]].actor = "alive"

====
